---- MODULE Spec2Model ----
(***************************************************************************)
(* botoweb.sql: the SQL query builder of src/src/botoweb/util.js           *)
(* (Column, Table, Expression, or / and / func, Query).                    *)
(*                                                                         *)
(* Objects are records.  A Table object is identified by its tbl_name, a   *)
(* Column by (name, table).  Rendered text is kept as a sequence of        *)
(* tokens; Text(toks) is the string JavaScript would produce.  A token     *)
(* that is a '?' placeholder carries, as a history annotation, the literal *)
(* the Expression constructor replaced by it.                              *)
(***************************************************************************)
EXTENDS Naturals, Sequences, FiniteSets, TLC

VARIABLES
    tbl,      \* the Table objects of the schema registry, by tbl_name
    q,        \* the Query objects, by query id
    hist,     \* per query: the renderings made since its last builder call,
              \* and how many filter, toString and all calls it has had
    sent,     \* the requests the executor (txn.executeSql) has received
    done,     \* the requests the executor has answered, and how
    thrown,   \* whether the caller's last call ended in an exception
    opA, opB, \* two operand expressions the caller holds
    ret       \* the last call of cmp / or / and / func and what it returned

vars == <<tbl, q, hist, sent, done, thrown, opA, opB, ret>>

----------------------------------------------------------------------------
(* Bounds of the model *)

MaxFilters == 2      \* filter / apply_bw_filters calls per Query
MaxGroups == 1       \* group_by calls per Query
MaxOrder == 1        \* order_by calls per Query
MaxRenders == 2      \* toString calls per Query
MaxCalls == 1        \* Query.all calls per Query
MaxSteps == 4        \* calls in all when two Query objects are built together

----------------------------------------------------------------------------
(* Sequences and text *)

RECURSIVE FoldL(_, _, _)
\* $.each(seq, ...) accumulating into acc, left to right
FoldL(f(_, _), acc, seq) ==
    IF seq = <<>> THEN acc ELSE FoldL(f, f(acc, Head(seq)), Tail(seq))

InSeq(x, seq) == \E i \in 1..Len(seq) : seq[i] = x

\* a piece of rendered text that is not a placeholder
Tok(s) == <<[type |-> "tok", s |-> s, ph |-> FALSE, src |-> ""]>>

\* the '?' the Expression constructor stores for the literal v
Hole(v) == <<[type |-> "ph", s |-> "?", ph |-> TRUE, src |-> v]>>

RECURSIVE Text(_)
\* the JavaScript string of a token sequence: its pieces concatenated
Text(toks) ==
    IF Len(toks) = 0 THEN ""
    ELSE IF Len(toks) = 1 THEN toks[1].s
    ELSE Text(SubSeq(toks, 1, Len(toks) \div 2))
         \o Text(SubSeq(toks, Len(toks) \div 2 + 1, Len(toks)))

\* the literals whose placeholders appear in toks, left to right
Holes(toks) ==
    LET holes == SelectSeq(toks, LAMBDA tk : tk.ph)
    IN [k \in 1..Len(holes) |-> holes[k].src]

----------------------------------------------------------------------------
(* Column and Table *)

\* new botoweb.sql.Column(name, table); table is the owning Table's tbl_name
Column(name, table) == [type |-> "col", name |-> name, table |-> table]

\* an operand that is neither an Expression nor a Column
Lit(v) == [type |-> "lit", val |-> v]

\* a Table object used as a value (selected column, _add_table argument)
TableRef(t) == [type |-> "table", id |-> t]

\* the c mapping: an insertion-ordered object, kept as <<key, Column>> pairs
SetKey(c, key, col) ==
    IF \E i \in 1..Len(c) : c[i].key = key
    THEN [i \in 1..Len(c) |-> IF c[i].key = key THEN [key |-> key, col |-> col] ELSE c[i]]
    ELSE Append(c, [key |-> key, col |-> col])

\* new botoweb.sql.Table(tbl_name, tbl_columns, name, columns); an absent
\* name or columns[i] is ""
Table(tbl_name, tbl_columns, name, columns) ==
    [ name     |-> IF name # "" THEN name ELSE tbl_name,
      tbl_name |-> tbl_name,
      parent   |-> "",
      c        |-> FoldL(LAMBDA c, i :
                            SetKey(c,
                                   IF i <= Len(columns) /\ columns[i] # ""
                                   THEN columns[i] ELSE tbl_columns[i],
                                   Column(tbl_columns[i], tbl_name)),
                         <<[key |-> "id", col |-> Column("id", tbl_name)]>>,
                         [i \in 1..Len(tbl_columns) |-> i]) ]

\* the keys `key in tbl.c` finds on Object.prototype: c is a plain object
InheritedKeys == {"constructor", "toString", "valueOf", "hasOwnProperty"}

OwnKeys(t) == {t.c[i].key : i \in 1..Len(t.c)}

\* tbl.c[key] for an own key
Get(t, key) == t.c[CHOOSE i \in 1..Len(t.c) : t.c[i].key = key].col

\* Table.toString
Table_toString(t) == Tok(t.tbl_name)

\* Column.toString: this.table + '.' + this.name
Column_toString(c) == Tok(tbl[c.table].tbl_name \o "." \o c.name)

----------------------------------------------------------------------------
(* Expression, or, and, func, Column.cmp *)

\* Expression._add_table: push unless $.inArray finds it
Expression_add_table(tables, t) == IF InSeq(t, tables) THEN tables ELSE Append(tables, t)

\* The Expression constructor's $.each over its operands.  str_fnc is the
\* closure's effect: [pre, sep, post] stands for
\* function () { return pre + this.columns.join(sep) + post }
Expression(columns, str_fnc) ==
    FoldL(LAMBDA self, c :
            IF c.type = "expr"
            THEN [self EXCEPT !.columns = Append(@, c),
                              !.tables = FoldL(Expression_add_table, @, c.tables),
                              !.bind_params = @ \o c.bind_params]
            ELSE IF c.type = "col"
            THEN [self EXCEPT !.columns = Append(@, c),
                              !.tables = Expression_add_table(@, c.table)]
            ELSE [self EXCEPT !.columns = @ \o Hole(c.val),
                              !.bind_params = Append(@, c.val)],
          [type |-> "expr", columns |-> <<>>, tables |-> <<>>,
           bind_params |-> <<>>, str_fnc |-> str_fnc],
          columns)

RECURSIVE toString(_)
\* String conversion of a value, as Array.join and + apply it
toString(x) ==
    CASE x.type = "col"   -> Column_toString(x)
      [] x.type = "table" -> Table_toString(tbl[x.id])
      [] x.type = "expr"  ->
            Tok(x.str_fnc.pre)
            \o FoldL(LAMBDA acc, i :
                        acc \o (IF i > 1 THEN Tok(x.str_fnc.sep) ELSE <<>>)
                            \o toString(x.columns[i]),
                     <<>>, [i \in 1..Len(x.columns) |-> i])
            \o Tok(x.str_fnc.post)
      [] x.type = "lit"   -> Tok(x.val)
      [] OTHER            -> <<x>>

\* or rendered with the glue of and
sql_or_as_and(args) == Expression(args, [pre |-> "(", sep |-> " AND ", post |-> ")"])

\* botoweb.sql.or(...)
sql_or(args) == Expression(args, [pre |-> "(", sep |-> " OR ", post |-> ")"])

\* botoweb.sql.and(...)
sql_and(args) == Expression(args, [pre |-> "(", sep |-> " AND ", post |-> ")"])

\* botoweb.sql.func(func_str, ...)
sql_func(func_str, args) ==
    Expression(args, [pre |-> func_str \o "(", sep |-> ",", post |-> ")"])

\* an operator argument is <<>> when absent and <<s>> when the string s
\* is passed; `op || 'is'` replaces both the absent and the empty one
Falsy(op) == op = <<>> \/ op[1] = ""

\* Column.cmp with = as the default operator
Column_cmp_eq(col, val, op) ==
    LET op1 == IF Falsy(op) THEN "=" ELSE op[1]
        str == Text(toString(val))
        val1 == CASE op1 = "contains"    -> Lit("%" \o str \o "%")
                  [] op1 = "starts-with" -> Lit(str \o "%")
                  [] op1 = "ends-with"   -> Lit("%" \o str)
                  [] OTHER               -> val
        sql_op == IF op1 \in {"contains", "starts-with", "ends-with"}
                  THEN "like" ELSE op1
    IN Expression(<<col, val1>>, [pre |-> "", sep |-> " " \o sql_op \o " ", post |-> ""])

\* Column.cmp(val, op)
Column_cmp(col, val, op) ==
    LET op1 == IF Falsy(op) THEN "is" ELSE op[1]
        str == Text(toString(val))
        val1 == CASE op1 = "contains"    -> Lit("%" \o str \o "%")
                  [] op1 = "starts-with" -> Lit(str \o "%")
                  [] op1 = "ends-with"   -> Lit("%" \o str)
                  [] OTHER               -> val
        sql_op == IF op1 \in {"contains", "starts-with", "ends-with"}
                  THEN "like" ELSE op1
    IN Expression(<<col, val1>>, [pre |-> "", sep |-> " " \o sql_op \o " ", post |-> ""])

RECURSIVE Depth(_)
\* how deep the Expressions of an operand nest
Depth(x) ==
    IF x.type # "expr" THEN 0
    ELSE 1 + FoldL(LAMBDA m, c : IF Depth(c) > m THEN Depth(c) ELSE m, 0, x.columns)

----------------------------------------------------------------------------
(* Query *)

\* Query._add_table
Query_add_table(self, t) ==
    IF InSeq(t, self.tables) THEN self ELSE [self EXCEPT !.tables = Append(@, t)]

\* Query.append_column: pushes the column; the _add_table calls are commented out
Query_append_column(self, column) == [self EXCEPT !.columns = Append(@, column)]

\* Query.filter with the bind parameters put in front of the earlier ones
Query_filter_unshift(self, expr) ==
    LET pushed == [self EXCEPT !.filters = Append(@, expr)]
        joined == FoldL(Query_add_table, pushed, expr.tables)
    IN [joined EXCEPT !.bind_params = expr.bind_params \o @]

\* Query.filter
Query_filter(self, expr) ==
    LET pushed == [self EXCEPT !.filters = Append(@, expr)]
        joined == FoldL(Query_add_table, pushed, expr.tables)
    IN [joined EXCEPT !.bind_params = @ \o expr.bind_params]

\* Query.group_by
Query_group_by(self, expr, asc_desc) ==
    [self EXCEPT !.groups = Append(@, <<expr, asc_desc>>)]

\* Query.order_by
Query_order_by(self, expr, asc_desc) ==
    [self EXCEPT !.order = Append(@, <<expr, asc_desc>>)]

\* Query.follow_references
Query_follow_references(self) == [self EXCEPT !.follow_refs = TRUE]

\* new botoweb.sql.Query(columns)
Query(columns) ==
    FoldL(Query_append_column,
          [columns |-> <<>>, tables |-> <<>>, filters |-> <<>>, groups |-> <<>>,
           order |-> <<>>, bind_params |-> <<>>, follow_refs |-> FALSE],
          columns)

\* Array.join(sep) of a sequence of values
Join(seq, sep) ==
    FoldL(LAMBDA acc, i : acc \o (IF i > 1 THEN Tok(sep) ELSE <<>>) \o toString(seq[i]),
          <<>>, [i \in 1..Len(seq) |-> i])

\* The first half of Query.toString: the walk over this.columns that
\* breaks the selected Tables into their columns.  Yields the Query as the
\* walk leaves it and the local array `columns`.
Query_expand(self0) ==
    LET one(acc, column, c) ==
            IF c.table # column.id
            THEN IF ~acc.self.follow_refs
                 THEN acc
                 ELSE [self |-> Query_filter(Query_add_table(acc.self, c.table),
                                             Column_cmp(Get(tbl[c.table], "id"),
                                                        Get(tbl[column.id], "id"), <<>>)),
                       columns |-> Append(acc.columns, c)]
            ELSE [acc EXCEPT !.columns = Append(@, c)]
        each(acc, column) ==
            IF column.type = "table"
            THEN FoldL(LAMBDA acc2, kc : one(acc2, column, kc.col), acc, tbl[column.id].c)
            ELSE [acc EXCEPT !.columns = Append(@, column)]
    IN FoldL(each, [self |-> self0, columns |-> <<>>], self0.columns)

\* Query.toString putting the WHERE clause before the FROM clause
Query_sql_where_first(self, columns) ==
    LET pair(g) == toString(g[1]) \o Tok(" ") \o Tok(g[2])
        pairs(gs) == FoldL(LAMBDA acc, i :
                              acc \o (IF i > 1 THEN Tok(", ") ELSE <<>>) \o pair(gs[i]),
                           <<>>, [i \in 1..Len(gs) |-> i])
    IN Tok("SELECT ") \o Join(columns, ", ")
       \o (IF Len(self.filters) # 0
           THEN Tok("\nWHERE ") \o Join(self.filters, " AND ")
           ELSE <<>>)
       \o (IF Len(self.tables) # 0
           THEN Tok("\nFROM ") \o Join([i \in 1..Len(self.tables) |-> TableRef(self.tables[i])], ", ")
           ELSE <<>>)
       \o (IF Len(self.groups) # 0
           THEN Tok("\nGROUP BY ") \o pairs(self.groups)
           ELSE <<>>)
       \o (IF Len(self.order) # 0
           THEN Tok("\nORDER BY ") \o pairs(self.order)
           ELSE <<>>)

\* The second half of Query.toString: the text built from the local
\* `columns` and from this.tables, this.filters, this.groups, this.order
Query_sql(self, columns) ==
    LET pair(g) == toString(g[1]) \o Tok(" ") \o Tok(g[2])
        pairs(gs) == FoldL(LAMBDA acc, i :
                              acc \o (IF i > 1 THEN Tok(", ") ELSE <<>>) \o pair(gs[i]),
                           <<>>, [i \in 1..Len(gs) |-> i])
    IN Tok("SELECT ") \o Join(columns, ", ")
       \o (IF Len(self.tables) # 0
           THEN Tok("\nFROM ") \o Join([i \in 1..Len(self.tables) |-> TableRef(self.tables[i])], ", ")
           ELSE <<>>)
       \o (IF Len(self.filters) # 0
           THEN Tok("\nWHERE ") \o Join(self.filters, " AND ")
           ELSE <<>>)
       \o (IF Len(self.groups) # 0
           THEN Tok("\nGROUP BY ") \o pairs(self.groups)
           ELSE <<>>)
       \o (IF Len(self.order) # 0
           THEN Tok("\nORDER BY ") \o pairs(self.order)
           ELSE <<>>)

\* Query.toString: the Query as the call leaves it, and the text returned
Query_toString(self0) ==
    LET w == Query_expand(self0)
    IN [self |-> w.self, sql |-> Query_sql(w.self, w.columns)]

\* Query.apply_bw_filters(filters, tbl) on normalized triples
\* <<field, operator, value>>.  `field in tbl.c` is true of the keys c
\* inherits too; for those tbl.c[field] has no cmp and the call throws,
\* leaving the filters added so far.
Query_apply_bw_filters(self0, filters, t) ==
    FoldL(LAMBDA acc, f :
            IF acc.thrown THEN acc
            ELSE IF f[1] \in OwnKeys(t)
            THEN [acc EXCEPT !.self = Query_filter(@, Column_cmp(Get(t, f[1]), Lit(f[3]), <<f[2]>>))]
            ELSE IF f[1] \in InheritedKeys
            THEN [acc EXCEPT !.thrown = TRUE]
            ELSE acc,
          [self |-> self0, thrown |-> FALSE], filters)

\* Query.all issuing its request a second time
Query_all_twice(self0, fnc) ==
    LET t == Query_toString(self0)
        call == [sql |-> t.sql, params |-> t.self.bind_params, fnc |-> fnc]
    IN [self |-> t.self, rendering |-> t, calls |-> <<call, call>>]

\* Query.all(txn, fnc): the executeSql calls made.  executeSql converts
\* its first argument, the Query, to a string (Query.toString); the second
\* is the bind_params array itself, the third the caller's callback.
Query_all(self0, fnc) ==
    LET t == Query_toString(self0)
    IN [self |-> t.self,
        rendering |-> t,
        calls |-> <<[sql |-> t.sql, params |-> t.self.bind_params, fnc |-> fnc]>>]

----------------------------------------------------------------------------
(* The schema and the inputs the caller draws from *)

\* tbl.c[key] = col, done by the schema code for a column that lives in
\* another table
Expose(t, key, col) == [t EXCEPT !.c = SetKey(@, key, col)]

TagsTable == Table("tags", <<"label", "kind">>, "Tag", <<"", "type">>)

ItemsTable ==
    Expose(Expose(Table("items", <<"name">>, "", <<>>),
                  "label", Get(TagsTable, "label")),
           "type", Get(TagsTable, "type"))

TTable == Table("t", <<"name">>, "Names", <<>>)

Schema ==
    [id \in {"items", "tags", "t"} |->
        IF id = "items" THEN ItemsTable ELSE IF id = "tags" THEN TagsTable ELSE TTable]

NameCol == Get(ItemsTable, "name")

isJohn == Column_cmp(NameCol, Lit("John"), <<>>)

startsJ == Column_cmp(Get(ItemsTable, "label"), Lit("J"), <<"starts-with">>)

\* the expressions passed to filter
FilterExprs ==
    { isJohn,
      sql_or(<<isJohn, startsJ>>),
      sql_and(<<sql_func("instr", <<NameCol, Lit("oh")>>), sql_or(<<startsJ, isJohn>>)>>) }

\* the (expression, direction) arguments of group_by
GroupArgs == { <<sql_func("substr", <<NameCol, Lit("1")>>), "DESC">> }

\* the (expression, direction) arguments of order_by
OrderArgs == { <<NameCol, "ASC">> }

\* the columns argument of the Query constructor
QueryArgs ==
    { <<TableRef("items")>>,
      <<NameCol>>,
      <<TableRef("tags"), NameCol>>,
      <<sql_func("ifnull", <<NameCol, Lit("none")>>)>> }

\* the (filters, tbl) arguments of apply_bw_filters, filters normalized
BwArgs ==
    { <<<< <<"status", "=", "open">> >>, "items">>,
      <<<< <<"status", "=", "open">>, <<"type", "contains", "k">> >>, "tags">>,
      <<<< <<"name", "!=", "Bo">>, <<"toString", "=", "x">> >>, "items">> }

\* the callbacks handed to Query.all
Callbacks == {"fnc1", "fnc2"}

----------------------------------------------------------------------------
(* The Query machine *)

NoCall == [fn |-> "none"]

NoHist == [renders |-> <<>>, nfilter |-> 0, nrender |-> 0, nall |-> 0]

Init ==
    /\ tbl = Schema
    /\ \E cols \in QueryArgs : q = [i \in {1} |-> Query(cols)]
    /\ hist = [i \in {1} |-> NoHist]
    /\ sent = <<>>
    /\ done = <<>>
    /\ thrown = FALSE
    /\ opA = isJohn
    /\ opB = startsJ
    /\ ret = NoCall

\* lists kept once for all Query objects instead of once per object: a
\* builder call on Query i also replaces every other Query's
\* bind-parameter list
Built_shared(i, self, n) ==
    /\ q' = [j \in DOMAIN q |->
                IF j = i THEN self ELSE [q[j] EXCEPT !.bind_params = self.bind_params]]
    /\ hist' = [hist EXCEPT ![i].renders = <<>>, ![i].nfilter = @ + n]

\* a builder call on Query i: the renderings remembered are no longer
\* renderings of the unmodified Query
Built(i, self, n) ==
    /\ q' = [q EXCEPT ![i] = self]
    /\ hist' = [hist EXCEPT ![i].renders = <<>>, ![i].nfilter = @ + n]

Filter(i, expr) ==
    /\ hist[i].nfilter < MaxFilters
    /\ Built(i, Query_filter(q[i], expr), 1)
    /\ thrown' = FALSE
    /\ UNCHANGED <<tbl, sent, done, opA, opB, ret>>

ApplyBwFilters(i, filters, t) ==
    /\ hist[i].nfilter + Len(filters) <= MaxFilters
    /\ \E out \in {Query_apply_bw_filters(q[i], filters, tbl[t])} :
          /\ Built(i, out.self, Len(filters))
          /\ thrown' = out.thrown
    /\ UNCHANGED <<tbl, sent, done, opA, opB, ret>>

GroupBy(i, expr, asc_desc) ==
    /\ Len(q[i].groups) < MaxGroups
    /\ Built(i, Query_group_by(q[i], expr, asc_desc), 0)
    /\ thrown' = FALSE
    /\ UNCHANGED <<tbl, sent, done, opA, opB, ret>>

OrderBy(i, expr, asc_desc) ==
    /\ Len(q[i].order) < MaxOrder
    /\ Built(i, Query_order_by(q[i], expr, asc_desc), 0)
    /\ thrown' = FALSE
    /\ UNCHANGED <<tbl, sent, done, opA, opB, ret>>

FollowReferences(i) ==
    /\ ~q[i].follow_refs
    /\ Built(i, Query_follow_references(q[i]), 0)
    /\ thrown' = FALSE
    /\ UNCHANGED <<tbl, sent, done, opA, opB, ret>>

\* what is remembered of one rendering: the text, the Query it left and
\* the Query it found
Rendering(self0, t) == [sql |-> t.sql, self |-> t.self, before |-> self0]

ToStringQ(i) ==
    /\ hist[i].nrender < MaxRenders
    /\ \E out \in {Query_toString(q[i])} :
          /\ q' = [q EXCEPT ![i] = out.self]
          /\ hist' = [hist EXCEPT ![i].renders = Append(@, Rendering(q[i], out)),
                                  ![i].nrender = @ + 1]
    /\ thrown' = FALSE
    /\ UNCHANGED <<tbl, sent, done, opA, opB, ret>>

Next ==
    \/ \E i \in DOMAIN q : \E expr \in FilterExprs : Filter(i, expr)
    \/ \E i \in DOMAIN q : \E fa \in BwArgs : ApplyBwFilters(i, fa[1], fa[2])
    \/ \E i \in DOMAIN q : \E g \in GroupArgs : GroupBy(i, g[1], g[2])
    \/ \E i \in DOMAIN q : \E g \in OrderArgs : OrderBy(i, g[1], g[2])
    \/ \E i \in DOMAIN q : FollowReferences(i)
    \/ \E i \in DOMAIN q : ToStringQ(i)

Spec == Init /\ [][Next]_vars

----------------------------------------------------------------------------
(* The Query machine with its executor *)

All(i, fnc) ==
    /\ hist[i].nall < MaxCalls
    /\ \E out \in {Query_all(q[i], fnc)} :
          /\ q' = [q EXCEPT ![i] = out.self]
          /\ hist' = [hist EXCEPT ![i].renders = Append(@, Rendering(q[i], out.rendering)),
                                  ![i].nall = @ + 1]
          /\ sent' = sent \o [k \in 1..Len(out.calls) |-> [qid |-> i, req |-> out.calls[k]]]
    /\ thrown' = FALSE
    /\ UNCHANGED <<tbl, done, opA, opB, ret>>

Unanswered == {k \in 1..Len(sent) : \A m \in 1..Len(done) : done[m].req # k}

\* the executor answers request k with rows: it calls the callback it was given
ExecutorReturn(k) ==
    /\ k \in Unanswered
    /\ done' = Append(done, [req |-> k, outcome |-> "rows", called |-> <<sent[k].req.fnc>>])
    /\ UNCHANGED <<tbl, q, hist, sent, thrown, opA, opB, ret>>

\* the executor fails request k: it was given no error callback
ExecutorFail(k) ==
    /\ k \in Unanswered
    /\ done' = Append(done, [req |-> k, outcome |-> "error", called |-> <<>>])
    /\ UNCHANGED <<tbl, q, hist, sent, thrown, opA, opB, ret>>

NextExec ==
    \/ \E i \in DOMAIN q : \E expr \in FilterExprs : Filter(i, expr)
    \/ \E i \in DOMAIN q : FollowReferences(i)
    \/ \E i \in DOMAIN q : \E fnc \in Callbacks : All(i, fnc)
    \/ \E k \in 1..Len(sent) : ExecutorReturn(k)
    \/ \E k \in 1..Len(sent) : ExecutorFail(k)

SpecExec == Init /\ [][NextExec]_vars

----------------------------------------------------------------------------
(* Column.cmp, or, and, func applied to operands *)

tJohn == Column_cmp(Get(TTable, "name"), Lit("John"), <<>>)

tStartsJ == Column_cmp(Get(TTable, "name"), Lit("J"), <<"starts-with">>)

\* the expressions the caller may hold as operands
Operands ==
    { tJohn, tStartsJ, startsJ,
      sql_or(<<isJohn, startsJ>>),
      sql_func("lower", <<NameCol>>) }

\* the columns cmp is called on
CmpCols == { NameCol, Get(ItemsTable, "label") }

\* the values cmp is given: literals and a Column
CmpVals == { Lit("John"), Lit("J"), Get(TagsTable, "id") }

\* the operator cmp is given: absent, empty, the three special ones, raw ones
Ops == { <<>>, <<"">>, <<"contains">>, <<"starts-with">>, <<"ends-with">>,
         <<"=">>, <<"is not">> }

\* the argument lists of or and and, made of the two operands held
ArgLists == { <<>>, <<opA>>, <<opB>>, <<opA, opB>>, <<opB, opA>> }

\* the argument lists of func
FuncArgs == { <<NameCol>>, <<NameCol, Lit("1")>>, <<opA, Lit("x"), opB>> }

InitExpr ==
    /\ tbl = Schema
    /\ q = [i \in {1} |-> Query(<<NameCol>>)]
    /\ hist = [i \in {1} |-> NoHist]
    /\ sent = <<>>
    /\ done = <<>>
    /\ thrown = FALSE
    /\ opA \in Operands
    /\ opB \in Operands
    /\ ret = NoCall

Returned(fn, args, op, res) ==
    /\ ret' = [fn |-> fn, args |-> args, op |-> op, res |-> res]
    /\ UNCHANGED <<tbl, q, hist, sent, done, thrown, opA, opB>>

Cmp(col, val, op) == Returned("cmp", <<col, val>>, op, Column_cmp(col, val, op))

Or(args) == Returned("or", args, <<>>, sql_or(args))

And(args) == Returned("and", args, <<>>, sql_and(args))

Func(func_str, args) == Returned("func", args, <<func_str>>, sql_func(func_str, args))

NextExpr ==
    \/ \E col \in CmpCols, val \in CmpVals, op \in Ops : Cmp(col, val, op)
    \/ \E args \in ArgLists : Or(args)
    \/ \E args \in ArgLists : And(args)
    \/ \E args \in FuncArgs : Func("coalesce", args)

SpecExpr == InitExpr /\ [][NextExpr]_vars

----------------------------------------------------------------------------
(* Two Query objects built over the same Table and Column objects *)

\* the columns arguments of the two constructor calls: both select the
\* Table items, the second also its Column name
SharedQueryArgs == << <<TableRef("items")>>, <<TableRef("items"), NameCol>> >>

\* the one Expression object the caller passes to filter on either Query
SharedFilterExprs == { startsJ }

\* the (filters, tbl) arguments of apply_bw_filters on either Query
SharedBwArgs == { <<<< <<"type", "contains", "k">> >>, "items">> }

\* how many calls Query i has had
Calls(i) ==
    hist[i].nfilter + hist[i].nrender + hist[i].nall
        + Len(q[i].groups) + Len(q[i].order) + (IF q[i].follow_refs THEN 1 ELSE 0)

\* the caller makes at most MaxSteps calls in all
Budget == Calls(1) + Calls(2) < MaxSteps

InitShared ==
    /\ tbl = Schema
    /\ q = [i \in {1, 2} |-> Query(SharedQueryArgs[i])]
    /\ hist = [i \in {1, 2} |-> NoHist]
    /\ sent = <<>>
    /\ done = <<>>
    /\ thrown = FALSE
    /\ opA = isJohn
    /\ opB = startsJ
    /\ ret = NoCall

NextShared ==
    \/ \E i \in DOMAIN q : \E expr \in SharedFilterExprs : Budget /\ Filter(i, expr)
    \/ \E i \in DOMAIN q : \E fa \in SharedBwArgs : Budget /\ ApplyBwFilters(i, fa[1], fa[2])
    \/ \E i \in DOMAIN q : \E g \in GroupArgs : Budget /\ GroupBy(i, g[1], g[2])
    \/ \E i \in DOMAIN q : \E g \in OrderArgs : Budget /\ OrderBy(i, g[1], g[2])
    \/ \E i \in DOMAIN q : Budget /\ FollowReferences(i)
    \/ \E i \in DOMAIN q : Budget /\ ToStringQ(i)
    \/ \E i \in DOMAIN q : \E fnc \in Callbacks : Budget /\ All(i, fnc)

SpecShared == InitShared /\ [][NextShared]_vars

----------------------------------------------------------------------------
(* Reading a rendered text *)

Keywords == {"SELECT ", "\nFROM ", "\nWHERE ", "\nGROUP BY ", "\nORDER BY "}

\* the clause keywords of a text, in the order they appear
KeywordSeq(toks) ==
    LET kws == SelectSeq(toks, LAMBDA tk : tk.s \in Keywords)
    IN [k \in 1..Len(kws) |-> kws[k].s]

\* the tokens of the clause that keyword kw opens (none if it is absent)
Clause(toks, kw) ==
    LET at == {k \in 1..Len(toks) : toks[k].s = kw}
    IN IF at = {} THEN <<>>
       ELSE LET from == CHOOSE k \in at : \A m \in at : k <= m
                later == {k \in (from + 1)..Len(toks) : toks[k].s \in Keywords}
                to == IF later = {} THEN Len(toks) + 1
                      ELSE CHOOSE k \in later : \A m \in later : k <= m
            IN SubSeq(toks, from + 1, to - 1)

\* how many tokens of toks read s
Count(toks, s) == Cardinality({k \in 1..Len(toks) : toks[k].s = s})

\* the columns a Table exposes that another table owns
Foreign(t) == {t.c[k].col : k \in {m \in 1..Len(t.c) : t.c[m].col.table # t.tbl_name}}

\* the Tables a Query selects
SelectedTables(self) ==
    {self.columns[k].id : k \in {m \in 1..Len(self.columns) : self.columns[m].type = "table"}}

----------------------------------------------------------------------------
(* Claims about the Query machine, checked under Spec *)

\* C1: rendering is idempotent: two toString calls with no builder call in
\* between return the same text, and the bind-parameter, filter and table
\* lists are the same after the second as after the first.
C1_RenderingIdempotent ==
    \A i \in DOMAIN q :
        \A k \in 1..Len(hist[i].renders) :
            k > 1 =>
                LET r1 == hist[i].renders[k - 1]
                    r2 == hist[i].renders[k]
                IN /\ Text(r2.sql) = Text(r1.sql)
                   /\ r2.self.bind_params = r1.self.bind_params
                   /\ r2.self.filters = r1.self.filters
                   /\ r2.self.tables = r1.self.tables

\* C2: the table list of a Query holds the owning table of every selected
\* Column, every selected Table and every table of every filter; a Query
\* fresh from the constructor renders a FROM clause naming that table.
C2_TablesCoverSelection ==
    \A i \in DOMAIN q :
        LET needed(self) ==
                {self.columns[k].table :
                    k \in {m \in 1..Len(self.columns) : self.columns[m].type = "col"}}
                \cup SelectedTables(self)
                \cup UNION {{f.tables[k] : k \in 1..Len(f.tables)} :
                               f \in {self.filters[m] : m \in 1..Len(self.filters)}}
        IN /\ \A t \in needed(q[i]) : InSeq(t, q[i].tables)
           /\ \A k \in 1..Len(hist[i].renders) :
                 \A t \in needed(hist[i].renders[k].before) :
                    Count(Clause(hist[i].renders[k].sql, "\nFROM "), tbl[t].tbl_name) = 1

\* C3: without follow_references a selected Table's foreign columns are
\* not rendered and add no filter and no table; with it every foreign
\* column is rendered, the filter list holds exactly one filter
\* owning.id is selected.id per foreign column however often the Query is
\* rendered, and the owning table is named once in FROM.
C3_FollowReferences ==
    \A i \in DOMAIN q :
        \A k \in 1..Len(hist[i].renders) :
            LET rr == hist[i].renders[k]
                select == Clause(rr.sql, "SELECT ")
            IN \A t \in SelectedTables(rr.before) :
                 IF ~rr.before.follow_refs
                 THEN /\ \A c \in Foreign(tbl[t]) : Count(select, Text(toString(c))) = 0
                      /\ rr.self.filters = rr.before.filters
                      /\ rr.self.tables = rr.before.tables
                 ELSE \A c \in Foreign(tbl[t]) :
                      /\ Count(select, Text(toString(c))) = 1
                      /\ Cardinality({m \in 1..Len(rr.self.filters) :
                              Text(toString(rr.self.filters[m]))
                                  = c.table \o ".id is " \o t \o ".id"})
                           = Cardinality({d \in Foreign(tbl[t]) : d.table = c.table})
                      /\ Count(Clause(rr.sql, "\nFROM "), c.table) = 1

\* C4: in every rendering the WHERE clause has as many '?' as the Query
\* has bind parameters, and the Nth '?' stands for the literal stored as
\* the Nth bind parameter.
C4_WherePlaceholders ==
    \A i \in DOMAIN q :
        \A k \in 1..Len(hist[i].renders) :
            LET rr == hist[i].renders[k]
                where == Clause(rr.sql, "\nWHERE ")
            IN /\ Count(where, "?") = Len(rr.self.bind_params)
               /\ Holes(where) = rr.self.bind_params

\* C4 happens: a Query with two filter calls, one of them nested three
\* deep, has been rendered twice and its placeholders stand for at least
\* three different literals
C4_Witness ==
    \E i \in DOMAIN q :
        /\ Len(hist[i].renders) >= 2
        /\ hist[i].nfilter >= 2
        /\ \E m \in 1..Len(q[i].filters) : Depth(q[i].filters[m]) >= 3
        /\ Cardinality({q[i].bind_params[m] : m \in 1..Len(q[i].bind_params)}) >= 3

\* C5: over the whole rendered text the bind-parameter list matches the
\* '?' placeholders one to one, left to right.
C5_AllPlaceholders ==
    \A i \in DOMAIN q :
        \A k \in 1..Len(hist[i].renders) :
            LET rr == hist[i].renders[k]
            IN /\ Count(rr.sql, "?") = Len(rr.self.bind_params)
               /\ Holes(rr.sql) = rr.self.bind_params

\* C6: apply_bw_filters calls filter once, in order, for each triple whose
\* field is a logical column name of the table; any other triple adds no
\* filter, no table and no bind parameter, and nothing is thrown.
C6_UnknownFieldsIgnored ==
    [][\A i \in DOMAIN q : \A fa \in BwArgs :
          ApplyBwFilters(i, fa[1], fa[2]) =>
            /\ ~thrown'
            /\ q'[i] = FoldL(LAMBDA self, f :
                               IF f[1] \in OwnKeys(tbl[fa[2]])
                               THEN Query_filter(self, Column_cmp(Get(tbl[fa[2]], f[1]),
                                                                  Lit(f[3]), <<f[2]>>))
                               ELSE self,
                             q[i], fa[1])]_vars

\* C8: a rendering has its clauses in the order SELECT, FROM, WHERE,
\* GROUP BY, ORDER BY, each opened on a new line; SELECT is always there
\* and each other clause is there exactly if its list is not empty when
\* the text is put together; the filters are joined with " AND "; and
\* Table('items', ['name']) selected and filtered with name.cmp('John')
\* renders the text of the end-to-end scenario with parameters ['John'].
C8_ClauseOrder ==
    \A i \in DOMAIN q :
        \A k \in 1..Len(hist[i].renders) :
            LET rr == hist[i].renders[k]
                self == rr.self
            IN /\ rr.sql[1].s = "SELECT "
               /\ KeywordSeq(rr.sql)
                    = <<"SELECT ">>
                      \o (IF self.tables # <<>> THEN <<"\nFROM ">> ELSE <<>>)
                      \o (IF self.filters # <<>> THEN <<"\nWHERE ">> ELSE <<>>)
                      \o (IF self.groups # <<>> THEN <<"\nGROUP BY ">> ELSE <<>>)
                      \o (IF self.order # <<>> THEN <<"\nORDER BY ">> ELSE <<>>)
               /\ Text(Clause(rr.sql, "\nWHERE "))
                    = FoldL(LAMBDA acc, m :
                              acc \o (IF m > 1 THEN " AND " ELSE "")
                                  \o Text(toString(self.filters[m])),
                            "", [m \in 1..Len(self.filters) |-> m])
               /\ ( /\ rr.before.columns = <<TableRef("items")>>
                    /\ ~rr.before.follow_refs
                    /\ rr.before.filters = <<isJohn>>
                    /\ rr.before.groups = <<>>
                    /\ rr.before.order = <<>> )
                  => /\ Text(rr.sql)
                          = "SELECT items.id, items.name\nFROM items\nWHERE items.name is ?"
                     /\ self.bind_params = <<"John">>

\* C8 happens: the end-to-end scenario has been rendered, and so has a
\* Query with all five clauses
C8_Witness ==
    \E i \in DOMAIN q :
        /\ \E k \in 1..Len(hist[i].renders) :
              Text(hist[i].renders[k].sql)
                  = "SELECT items.id, items.name\nFROM items\nWHERE items.name is ?"

----------------------------------------------------------------------------
(* Claims about Query.all, checked under SpecExec *)

\* the requests the executor has received from Query i
SentBy(i) == SelectSeq(sent, LAMBDA m : m.qid = i)

\* C7: each call of Query.all hands the executor exactly one request: the
\* text toString renders, the bind-parameter list as it stands once that
\* text is rendered, and the caller's callback; no other step, whatever
\* the executor answers, hands it another.
C7_OneRequestPerAll ==
    [][\A i \in DOMAIN q :
          IF hist'[i].nall # hist[i].nall
          THEN \E fnc \in Callbacks :
                 /\ All(i, fnc)
                 /\ Len(sent') = Len(sent) + 1
                 /\ \E rendered \in {Query_toString(q[i])} :
                      LET m == sent'[Len(sent')]
                      IN /\ m.qid = i
                         /\ Text(m.req.sql) = Text(rendered.sql)
                         /\ m.req.params = rendered.self.bind_params
                         /\ m.req.params = q'[i].bind_params
                         /\ m.req.fnc = fnc
          ELSE SentBy(i)' = SentBy(i)]_vars

\* C7 happens: a Query with bind parameters was executed, the executor
\* failed the request, and it is still the only request
C7_Witness ==
    /\ Len(sent) = 1
    /\ hist[sent[1].qid].nall = 1
    /\ sent[1].req.params # <<>>
    /\ \E m \in 1..Len(done) : done[m].req = 1 /\ done[m].outcome = "error"

----------------------------------------------------------------------------
(* Claims about cmp, or, and, checked under SpecExpr *)

\* the text <table>.<column> <sql_op> ?
CmpText(col, sql_op) == tbl[col.table].tbl_name \o "." \o col.name \o " " \o sql_op \o " ?"

\* C9 as stated: cmp(v, op) on a literal v renders <table>.<column> <sql_op> ?
\* with one bind parameter: like and %v% for contains, like and v% for
\* starts-with, like and %v for ends-with, is and v for an absent operator,
\* and for any other operator string that string and v.
C9_Cmp ==
    (ret.fn = "cmp" /\ ret.args[2].type = "lit") =>
        LET col == ret.args[1]
            v == ret.args[2].val
            sql_op == CASE ret.op = <<>>              -> "is"
                        [] ret.op = <<"contains">>    -> "like"
                        [] ret.op = <<"starts-with">> -> "like"
                        [] ret.op = <<"ends-with">>   -> "like"
                        [] OTHER                      -> ret.op[1]
            param == CASE ret.op = <<"contains">>    -> "%" \o v \o "%"
                       [] ret.op = <<"starts-with">> -> v \o "%"
                       [] ret.op = <<"ends-with">>   -> "%" \o v
                       [] OTHER                      -> v
        IN /\ ret.res.type = "expr"
           /\ Text(toString(ret.res)) = CmpText(col, sql_op)
           /\ ret.res.bind_params = <<param>>

\* C9 amended: the same, but the empty operator string is taken as an
\* absent one: it renders is, not the empty string.
C9_CmpAmended ==
    (ret.fn = "cmp" /\ ret.args[2].type = "lit") =>
        LET col == ret.args[1]
            v == ret.args[2].val
            sql_op == CASE ret.op = <<>> \/ ret.op = <<"">> -> "is"
                        [] ret.op = <<"contains">>          -> "like"
                        [] ret.op = <<"starts-with">>       -> "like"
                        [] ret.op = <<"ends-with">>         -> "like"
                        [] OTHER                            -> ret.op[1]
            param == CASE ret.op = <<"contains">>    -> "%" \o v \o "%"
                       [] ret.op = <<"starts-with">> -> v \o "%"
                       [] ret.op = <<"ends-with">>   -> "%" \o v
                       [] OTHER                      -> v
        IN /\ ret.res.type = "expr"
           /\ Text(toString(ret.res)) = CmpText(col, sql_op)
           /\ ret.res.bind_params = <<param>>

\* C9 happens: cmp was called on a literal with the empty operator string
C9_Witness == ret.fn = "cmp" /\ ret.args[2].type = "lit" /\ ret.op = <<"">>

\* C10: and(a, b) renders (a AND b), or(a, b) renders (a OR b); the bind
\* parameters are those of a followed by those of b, the tables the union
\* of theirs without repetition; or(name.cmp('John'),
\* name.cmp('J', 'starts-with')) is (t.name is ? OR t.name like ?) with
\* ['John', 'J%'].
C10_AndOr ==
    (ret.fn \in {"and", "or"} /\ Len(ret.args) = 2) =>
        LET x == ret.args[1]
            y == ret.args[2]
            set(seq) == {seq[k] : k \in 1..Len(seq)}
        IN /\ Text(toString(ret.res))
                = "(" \o Text(toString(x))
                      \o (IF ret.fn = "and" THEN " AND " ELSE " OR ")
                      \o Text(toString(y)) \o ")"
           /\ ret.res.bind_params = x.bind_params \o y.bind_params
           /\ Holes(toString(ret.res)) = ret.res.bind_params
           /\ set(ret.res.tables) = set(x.tables) \cup set(y.tables)
           /\ Cardinality(set(ret.res.tables)) = Len(ret.res.tables)
           /\ (ret.fn = "or" /\ ret.args = <<tJohn, tStartsJ>>) =>
                 /\ Text(toString(ret.res)) = "(t.name is ? OR t.name like ?)"
                 /\ ret.res.bind_params = <<"John", "J%">>

\* C10 happens: or was called on name.cmp('John') and
\* name.cmp('J', 'starts-with') of one table
C10_Witness ==
    /\ ret.fn = "or"
    /\ ret.args = <<tJohn, tStartsJ>>
    /\ ret.args[1] = Column_cmp(Get(tbl["t"], "name"), Lit("John"), <<>>)
    /\ ret.args[2] = Column_cmp(Get(tbl["t"], "name"), Lit("J"), <<"starts-with">>)

\* C11: and(...) and or(...) called with no expression or with exactly one
\* still render valid SQL: the text is never the empty parentheses (), and
\* with one expression it is that expression's text, bare or in
\* parentheses, with that expression's bind parameters.
C11_ZeroOrOneArgument ==
    (ret.fn \in {"and", "or"} /\ Len(ret.args) <= 1) =>
        /\ Text(toString(ret.res)) # "()"
        /\ Len(ret.args) = 1 =>
              /\ Text(toString(ret.res))
                    \in { Text(toString(ret.args[1])),
                          "(" \o Text(toString(ret.args[1])) \o ")" }
              /\ ret.res.bind_params = ret.args[1].bind_params

----------------------------------------------------------------------------
(* Claims about two Query objects, checked under SpecShared *)

\* the step is a call of one of the seven Query operations on Query i
CalledOn(i) ==
    \/ \E expr \in SharedFilterExprs : Filter(i, expr)
    \/ \E fa \in SharedBwArgs : ApplyBwFilters(i, fa[1], fa[2])
    \/ \E g \in GroupArgs : GroupBy(i, g[1], g[2])
    \/ \E g \in OrderArgs : OrderBy(i, g[1], g[2])
    \/ FollowReferences(i)
    \/ ToStringQ(i)
    \/ \E fnc \in Callbacks : All(i, fnc)

\* C12: queries share no mutable state: a call of filter, apply_bw_filters,
\* group_by, order_by, follow_references, toString or all on one Query
\* leaves the column, table, filter, group, order and bind-parameter lists
\* and the follow-references flag of every other Query as they were, and
\* leaves every Table's name, column mapping and parent and every Column's
\* name and owning table as they were.
C12_NoSharedState ==
    [][\A i \in DOMAIN q :
          CalledOn(i) =>
             /\ \A j \in DOMAIN q \ {i} :
                   /\ q'[j].columns = q[j].columns
                   /\ q'[j].tables = q[j].tables
                   /\ q'[j].filters = q[j].filters
                   /\ q'[j].groups = q[j].groups
                   /\ q'[j].order = q[j].order
                   /\ q'[j].bind_params = q[j].bind_params
                   /\ q'[j].follow_refs = q[j].follow_refs
             /\ DOMAIN tbl' = DOMAIN tbl
             /\ \A t \in DOMAIN tbl :
                   /\ tbl'[t].name = tbl[t].name
                   /\ tbl'[t].tbl_name = tbl[t].tbl_name
                   /\ tbl'[t].parent = tbl[t].parent
                   /\ Len(tbl'[t].c) = Len(tbl[t].c)
                   /\ \A k \in 1..Len(tbl[t].c) :
                         /\ tbl'[t].c[k].key = tbl[t].c[k].key
                         /\ tbl'[t].c[k].col.name = tbl[t].c[k].col.name
                         /\ tbl'[t].c[k].col.table = tbl[t].c[k].col.table]_vars

\* C12 happens: both Query objects select the Table items and have been
\* given the same Expression as a filter, the first follows references and
\* has been rendered (so it has joined tags), and the second holds neither
\* the join filter nor the flag
C12_Witness ==
    /\ DOMAIN q = {1, 2}
    /\ TableRef("items") \in {q[1].columns[k] : k \in 1..Len(q[1].columns)}
    /\ TableRef("items") \in {q[2].columns[k] : k \in 1..Len(q[2].columns)}
    /\ InSeq(startsJ, q[1].filters)
    /\ InSeq(startsJ, q[2].filters)
    /\ q[1].follow_refs
    /\ hist[1].nrender >= 1
    /\ Len(q[1].filters) > 1
    /\ q[2].filters = <<startsJ>>
    /\ ~q[2].follow_refs

====
